---- MODULE Spec2Model ----
(***************************************************************************)
(* Model of the two dependency version checkers of this repository:        *)
(*   scripts/check_versions.py   the static-list checker   (prog "static") *)
(*   scripts/check_versions2.py  the lockfile checker    (prog "lockfile") *)
(*                                                                         *)
(* Python strings are sequences of one-character strings, so that lstrip,  *)
(* startswith, slicing, lower() and the regular expressions of the source  *)
(* are computed, not assumed.  An Optional value is a sequence of length   *)
(* at most one: None is << >> and a present value v is << v >>.  A JSON    *)
(* object is a function from its keys to its values.                       *)
(***************************************************************************)
EXTENDS Integers, Sequences, FiniteSets, TLC

VARIABLES
    prog,          \* which script runs: "static" or "lockfile"
    hasPackaging,  \* whether `from packaging.version import parse` succeeds
    deps,          \* the input: IOS_DEPENDENCIES, or the pins of Package.resolved
    work,          \* the list the main loop iterates over
    pc,            \* position of main(): "start", "fetch", "loop", "await", "done", "exit0", "exit1"
    idx,           \* 1-based index of the loop's current dependency
    inflight,      \* Optional: the request whose response is awaited
    cur,           \* the local variables of the current iteration
    results,       \* all_results / final_results
    hist,          \* history: per entry, the <<request, response>> pairs it made
    report,        \* Optional: the content written to the report file
    prelude        \* history: the <<request, response>> pairs made before the loop

vars == <<prog, hasPackaging, deps, work, pc, idx, inflight, cur, results, hist, report,
          prelude>>

----------------------------------------------------------------------------
(* Optional values and Python truthiness                                   *)

None == << >>

Some(v) == << v >>

IsNone(o) == o = << >>

\* `if x:` for an Optional string / list / dict: not None and not empty.
Truthy(o) == o # << >> /\ DOMAIN o[1] # {}

----------------------------------------------------------------------------
(* Program constants                                                       *)

\* The length of a short commit sha: sha[:7], and the `>= 7` of the status.
ShaLen == 7

\* `len(resolved_version) < 10`: the branch-name heuristic of the lockfile checker.
BranchNameMaxLen == 10

----------------------------------------------------------------------------
(* Characters and the string methods the source uses                       *)

Digits == {"0", "1", "2", "3", "4", "5", "6", "7", "8", "9"}

DigitVal(c) ==
    CASE c = "0" -> 0 [] c = "1" -> 1 [] c = "2" -> 2 [] c = "3" -> 3
      [] c = "4" -> 4 [] c = "5" -> 5 [] c = "6" -> 6 [] c = "7" -> 7
      [] c = "8" -> 8 [] c = "9" -> 9

\* str.lower() on one character (the upper-case letters the inputs use).
LowerChar(c) ==
    CASE c = "M" -> "m" [] c = "A" -> "a" [] c = "I" -> "i" [] c = "N" -> "n"
      [] c = "D" -> "d" [] c = "E" -> "e" [] c = "V" -> "v" [] c = "S" -> "s"
      [] c = "T" -> "t" [] c = "R" -> "r" [] c = "L" -> "l" [] c = "O" -> "o"
      [] c = "P" -> "p"
      [] OTHER -> c

Lower(s) == [i \in 1..Len(s) |-> LowerChar(s[i])]

\* s[:n]
Take(s, n) == SubSeq(s, 1, IF n < Len(s) THEN n ELSE Len(s))

\* s[n:] with n counted from 0
Drop(s, n) == SubSeq(s, n + 1, Len(s))

StartsWith(s, p) == Len(p) <= Len(s) /\ SubSeq(s, 1, Len(p)) = p

EndsWith(s, p) ==
    Len(p) <= Len(s) /\ SubSeq(s, Len(s) - Len(p) + 1, Len(s)) = p

\* s.lstrip(chars): every leading character that is in chars is removed.
LStrip(s, chars) ==
    LET keep == {i \in 1..Len(s) : s[i] \notin chars}
    IN  IF keep = {} THEN << >>
        ELSE LET first == CHOOSE i \in keep : \A j \in keep : i <= j
             IN  SubSeq(s, first, Len(s))

\* s.rstrip(chars)
RStrip(s, chars) ==
    LET keep == {i \in 1..Len(s) : s[i] \notin chars}
    IN  IF keep = {} THEN << >>
        ELSE LET last == CHOOSE i \in keep : \A j \in keep : j <= i
             IN  SubSeq(s, 1, last)

\* s.removesuffix(p)
RemoveSuffix(s, p) ==
    IF EndsWith(s, p) THEN SubSeq(s, 1, Len(s) - Len(p)) ELSE s

\* re.match(r'^\d+\.\d+', s)
MatchesDigitsDotDigits(s) ==
    \E k \in 1..Len(s) :
        /\ \A i \in 1..k : s[i] \in Digits
        /\ k + 2 <= Len(s)
        /\ s[k + 1] = "."
        /\ s[k + 2] \in Digits

----------------------------------------------------------------------------
(* Source-Locator: the two URL parsers                                     *)

DotGit == <<".", "g", "i", "t">>

HttpsPrefix ==
    <<"h", "t", "t", "p", "s", ":", "/", "/",
      "g", "i", "t", "h", "u", "b", ".", "c", "o", "m", "/">>

HttpPrefix ==
    <<"h", "t", "t", "p", ":", "/", "/",
      "g", "i", "t", "h", "u", "b", ".", "c", "o", "m", "/">>

GitPrefix ==
    <<"g", "i", "t", ":", "/", "/",
      "g", "i", "t", "h", "u", "b", ".", "c", "o", "m", "/">>

\* The tail `([^/]+)/([^/]+)$` of both patterns: exactly one "/" in `rest`,
\* with a non-empty segment on each side.  Returns <<owner, repo>> or None.
SplitOwnerRepo(rest) ==
    LET slashes == {i \in 1..Len(rest) : rest[i] = "/"}
    IN  IF Cardinality(slashes) # 1 THEN None
        ELSE LET k == CHOOSE i \in slashes : TRUE
             IN  IF k = 1 \/ k = Len(rest) THEN None
                 ELSE <<SubSeq(rest, 1, k - 1), SubSeq(rest, k + 1, Len(rest))>>

\* check_versions.py parse_github_url: pattern
\*   ^(?:https|git)://github\.com/([^/]+)/([^/]+?)(?:\.git)?$
parse_github_url(url) ==
    IF url = << >> THEN None
    ELSE
      LET u1 == IF EndsWith(url, DotGit) THEN SubSeq(url, 1, Len(url) - 4)
                ELSE url
          u2 == RStrip(u1, {"/"})
          rest == IF StartsWith(u2, HttpsPrefix) THEN Some(Drop(u2, Len(HttpsPrefix)))
                  ELSE IF StartsWith(u2, GitPrefix) THEN Some(Drop(u2, Len(GitPrefix)))
                  ELSE None
      IN  IF IsNone(rest) THEN None
          ELSE LET pr == SplitOwnerRepo(rest[1])
               IN  IF IsNone(pr) THEN None
                   ELSE \* lazy ([^/]+?) then optional (?:\.git)
                        IF EndsWith(pr[2], DotGit) /\ Len(pr[2]) > 4
                        THEN <<pr[1], SubSeq(pr[2], 1, Len(pr[2]) - 4)>>
                        ELSE pr

\* check_versions2.py parse_github_url_to_owner_repo: pattern
\*   ^(?:https?|git)://github\.com/([^/]+)/([^/]+)$
parse_github_url_to_owner_repo(url) ==
    IF url = << >> THEN None
    ELSE
      LET u == RStrip(RemoveSuffix(url, DotGit), {"/"})
          rest == IF StartsWith(u, HttpsPrefix) THEN Some(Drop(u, Len(HttpsPrefix)))
                  ELSE IF StartsWith(u, HttpPrefix) THEN Some(Drop(u, Len(HttpPrefix)))
                  ELSE IF StartsWith(u, GitPrefix) THEN Some(Drop(u, Len(GitPrefix)))
                  ELSE None
      IN  IF IsNone(rest) THEN None ELSE SplitOwnerRepo(rest[1])

----------------------------------------------------------------------------
(* Version-Comparator: packaging.version.parse on dotted numeric versions  *)

VChars == {"v", "V"}

RECURSIVE NumVal(_)
\* int(s) for a non-empty string of digits
NumVal(s) ==
    IF Len(s) = 0 THEN 0
    ELSE 10 * NumVal(SubSeq(s, 1, Len(s) - 1)) + DigitVal(s[Len(s)])

RECURSIVE SplitDots(_)
\* s.split('.')
SplitDots(s) ==
    LET dots == {i \in 1..Len(s) : s[i] = "."}
    IN  IF dots = {} THEN <<s>>
        ELSE LET k == CHOOSE i \in dots : \A j \in dots : i <= j
             IN  <<SubSeq(s, 1, k - 1)>> \o SplitDots(SubSeq(s, k + 1, Len(s)))

\* The release segment of PEP 440, \d+(\.\d+)*, which is the whole grammar for
\* the version strings the model draws (no epoch, pre, post, dev or local
\* part).  parse() raises InvalidVersion on anything else: None here.
parse_version(s) ==
    LET parts == SplitDots(s)
    IN  IF /\ Len(s) > 0
           /\ \A i \in 1..Len(s) : s[i] \in Digits \cup {"."}
           /\ \A i \in 1..Len(parts) : Len(parts[i]) > 0
        THEN Some([i \in 1..Len(parts) |-> NumVal(parts[i])])
        ELSE None

\* Version._key: the release with its trailing zeros removed.
StripTrailingZeros(r) ==
    LET nz == {i \in 1..Len(r) : r[i] # 0}
    IN  IF nz = {} THEN << >>
        ELSE SubSeq(r, 1, CHOOSE i \in nz : \A j \in nz : j <= i)

\* Python tuple comparison a >= b
TupleGE(a, b) ==
    LET diff == {i \in 1..Len(a) : i > Len(b) \/ a[i] # b[i]}
    IN  IF diff = {} THEN Len(a) >= Len(b)
        ELSE LET k == CHOOSE i \in diff : \A j \in diff : i <= j
             IN  k > Len(b) \/ a[k] > b[k]

\* parse_version(a) >= parse_version(b), both parsed
VersionGE(pa, pb) == TupleGE(StripTrailingZeros(pa), StripTrailingZeros(pb))

----------------------------------------------------------------------------
(* Status-Resolver                                                         *)

\* The status strings of the two scripts: the leading symbol and the text.
StErrorChecking   == [sym |-> "alarm", text |-> "Error Checking"]
StErrorParsingURL == [sym |-> "alarm", text |-> "Error Parsing URL"]
StTracksBranch    == [sym |-> "info",  text |-> "Tracks Branch"]
StTracksBranchRev == [sym |-> "info",  text |-> "Tracks Branch/Revision"]
StUpToDate        == [sym |-> "check", text |-> "Up to Date"]
StUpToDateRev     == [sym |-> "check", text |-> "Up to Date (Branch/Revision)"]
StUpdateAvailable == [sym |-> "warn",  text |-> "Update Available"]

\* Lines 245-263 / 255-270, shared by both scripts: normalise, compare for
\* equality, then try packaging.version.  `pkg` is whether
\* `from packaging.version import parse` succeeds.
CompareVersions(current, latest, pkg) ==
    LET norm_current == LStrip(current, VChars)
        norm_latest  == LStrip(latest, VChars)
    IN  IF norm_current = norm_latest THEN StUpToDate
        ELSE IF /\ pkg
                /\ ~IsNone(parse_version(norm_current))
                /\ ~IsNone(parse_version(norm_latest))
                /\ VersionGE(parse_version(norm_current)[1],
                             parse_version(norm_latest)[1])
             THEN StUpToDate
             ELSE StUpdateAvailable

\* check_versions.py determine_status; latest_version is an Optional string.
determine_status(current_version, latest_version, is_tracking_branch, has_error, pkg) ==
    IF has_error \/ IsNone(latest_version) THEN StErrorChecking
    ELSE IF is_tracking_branch THEN StTracksBranch
    ELSE CompareVersions(current_version, latest_version[1], pkg)

\* Mutant of determine_status_for_resolved: the two length tests are left out.
determine_status_for_resolved_NoLengthTest(resolved_version, latest_version, is_branch_or_revision, has_error, pkg) ==
    IF has_error \/ IsNone(latest_version) THEN StErrorChecking
    ELSE IF is_branch_or_revision
         THEN IF StartsWith(resolved_version,
                            Take(latest_version[1], Len(resolved_version)))
              THEN StUpToDateRev
              ELSE StTracksBranchRev
    ELSE CompareVersions(resolved_version, latest_version[1], pkg)

\* check_versions2.py determine_status_for_resolved
determine_status_for_resolved(resolved_version, latest_version, is_branch_or_revision, has_error, pkg) ==
    IF has_error \/ IsNone(latest_version) THEN StErrorChecking
    ELSE IF is_branch_or_revision
         THEN IF /\ Len(resolved_version) >= ShaLen
                 /\ Len(latest_version[1]) >= ShaLen
                 /\ StartsWith(resolved_version,
                               Take(latest_version[1], Len(resolved_version)))
              THEN StUpToDateRev
              ELSE StTracksBranchRev
    ELSE CompareVersions(resolved_version, latest_version[1], pkg)

----------------------------------------------------------------------------
(* Strings of the inputs and of the remote's answers                       *)

Str_master      == <<"m", "a", "s", "t", "e", "r">>
Str_main        == <<"m", "a", "i", "n">>
Str_Main        == <<"M", "a", "i", "n">>
Str_develop     == <<"d", "e", "v", "e", "l", "o", "p">>
Str_dev         == <<"d", "e", "v">>
Str_mainline    == <<"m", "a", "i", "n", "l", "i", "n", "e">>
Str_development == <<"d", "e", "v", "e", "l", "o", "p", "m", "e", "n", "t">>
Str_unknown     == <<"u", "n", "k", "n", "o", "w", "n">>
Str_Unknown     == <<"U", "n", "k", "n", "o", "w", "n">>
Str_1_2_0       == <<"1", ".", "2", ".", "0">>
Str_1_10_0      == <<"1", ".", "1", "0", ".", "0">>
Str_v1_10_0     == <<"v", "1", ".", "1", "0", ".", "0">>
Str_v1_2_0      == <<"v", "1", ".", "2", ".", "0">>
Str_vv1_10_0    == <<"v", "v", "1", ".", "1", "0", ".", "0">>
Str_def456      == <<"d", "e", "f", "4", "5", "6">>
Str_abcdef1     == <<"a", "b", "c", "d", "e", "f", "1">>
Str_abcd        == <<"a", "b", "c", "d">>
Str_1234567     == <<"1", "2", "3", "4", "5", "6", "7">>

\* A full 40-character commit sha whose first seven characters are h7.
FullSha(h7) == h7 \o h7 \o h7 \o h7 \o h7 \o Take(h7, 5)

UrlLib     == HttpsPrefix \o <<"a", "c", "m", "e", "/", "l", "i", "b">>
UrlLibGit  == HttpsPrefix \o <<"a", "c", "m", "e", "/", "l", "i", "b", ".", "g", "i", "t">>
UrlNotAUrl == <<"n", "o", "t", "-", "a", "-", "u", "r", "l">>
UrlHttp    == HttpPrefix \o <<"a", "c", "m", "e", "/", "l", "i", "b">>

----------------------------------------------------------------------------
(* Bounds and input pools                                                  *)

\* The longest dependency list a run is given.
MaxDeps == 2

\* check_versions.py:28-79 is a list of {name, url, current}; the pool holds
\* one record for each kind of pin and URL the script distinguishes.
StaticPool ==
    { [name |-> "Ten",   url |-> UrlLibGit,  current |-> Str_1_10_0],
      [name |-> "Vee",   url |-> UrlLib,     current |-> Str_v1_2_0],
      [name |-> "Dub",   url |-> UrlLib,     current |-> Str_vv1_10_0],
      [name |-> "Reach", url |-> UrlLib,     current |-> Str_master],
      [name |-> "Caps",  url |-> UrlLib,     current |-> Str_Main],
      [name |-> "Devel", url |-> UrlLib,     current |-> Str_development],
      [name |-> "Bad",   url |-> UrlNotAUrl, current |-> Str_1_2_0] }

\* Pins of a Package.resolved (v2 shape: identity, location, state), with the
\* state's optional fields version, branch and revision.
LockPool ==
    { [identity |-> "lib",   location |-> UrlLib,
       state |-> [version |-> Str_1_2_0, revision |-> FullSha(Str_abcdef1)]],
      [identity |-> "ten",   location |-> UrlLibGit,
       state |-> [version |-> Str_1_10_0]],
      [identity |-> "reach", location |-> UrlLib,
       state |-> [branch |-> Str_main, revision |-> FullSha(Str_abcdef1)]],
      [identity |-> "devel", location |-> UrlLib,
       state |-> [branch |-> Str_development, revision |-> FullSha(Str_abcdef1)]],
      [identity |-> "rev",   location |-> UrlLib,
       state |-> [revision |-> FullSha(Str_abcdef1)]],
      [identity |-> "rev7",  location |-> UrlLib,
       state |-> [revision |-> Str_abcdef1]],
      [identity |-> "rev4",  location |-> UrlLib,
       state |-> [revision |-> Str_abcd]],
      [identity |-> "none",  location |-> UrlLib,
       state |-> << >>],
      [identity |-> "plain", location |-> UrlHttp,
       state |-> [version |-> Str_1_2_0]],
      [identity |-> "bad",   location |-> UrlNotAUrl,
       state |-> [version |-> Str_1_2_0, revision |-> FullSha(Str_abcdef1)]] }

\* All sequences over S of length lo..hi.
SeqsOf(S, lo, hi) == UNION {[1..n -> S] : n \in lo..hi}

----------------------------------------------------------------------------
(* Remote host: what make_github_request / make_api_request can return     *)

TagValues == {Str_1_2_0, Str_v1_10_0, Str_def456}

ShaHeads == {Str_abcdef1, Str_1234567}

\* None stands for every failure the request functions map to None: HTTPError,
\* URLError, a timeout, a non-200 status, a JSON decode error.
ReleaseResponses ==
    {None, Some([message |-> "Not Found"])}
        \cup {Some([tag_name |-> s]) : s \in TagValues}

TagsResponses ==
    {None, Some(<< >>),
     Some(<<[name |-> Str_1_2_0]>>),
     Some(<<[name |-> Str_v1_10_0]>>),
     Some(<<[name |-> Str_def456], [name |-> Str_1_2_0]>>)}

BranchResponses ==
    {None} \cup {Some([commit |-> [sha |-> FullSha(h)]]) : h \in ShaHeads}

ResponsesFor(kind) ==
    CASE kind = "release" -> ReleaseResponses
      [] kind = "tags"    -> TagsResponses
      [] kind = "branch"  -> BranchResponses

\* The URL of a request, as the parts that vary.
Request(kind, owner, repo, branch) ==
    [dep |-> idx, kind |-> kind, owner |-> owner, repo |-> repo, branch |-> branch]

\* dict.get(k)
Get(d, k) == IF k \in DOMAIN d THEN Some(d[k]) ELSE None

\* A note: the fixed text and the value formatted into it.
Note(text, arg) == <<[text |-> text, arg |-> arg]>>

\* The loop's local variables before an iteration assigns them.
FreshCur ==
    [owner |-> << >>, repo |-> << >>, latest |-> None, notes |-> << >>,
     has_error |-> FALSE, is_tracking |-> FALSE, to_try |-> << >>,
     status |-> None, version_type |-> "unknown"]

----------------------------------------------------------------------------
(* check_versions.py: the static-list checker                              *)

\* line 288: the names a bare pin must equal, ignoring case, to be a branch
BranchLikeNames == {Str_master, Str_main, Str_develop, Str_dev, Str_mainline}

\* Mutant of is_tracking_branch: the pin is compared without lower().
is_tracking_branch_CaseSensitive(current_version) == current_version \in BranchLikeNames

is_tracking_branch(current_version) == Lower(current_version) \in BranchLikeNames

\* Mutant of branches_to_try: a branch that gave no sha is asked for again.
branches_to_try_SameAgain(branch_name) == <<branch_name, branch_name>>

\* get_latest_commit_sha lines 210-214: the branch and its one alternate
branches_to_try(branch_name) ==
    IF Lower(branch_name) = Str_master THEN <<branch_name, Str_main>>
    ELSE IF Lower(branch_name) = Str_main THEN <<branch_name, Str_master>>
    ELSE <<branch_name>>

\* Mutant of get_latest_release: the tag name is read under the wrong key.
get_latest_release_WrongKey(data) ==
    IF Truthy(data) /\ "name" \in DOMAIN data[1]
    THEN Some(data[1].name)
    ELSE None

\* get_latest_release lines 174-181, on the response of the request
get_latest_release(data) ==
    IF Truthy(data) /\ "tag_name" \in DOMAIN data[1]
    THEN Some(data[1].tag_name)
    ELSE None

\* get_latest_tag lines 193-203: the first tag of the list, if it has a name
get_latest_tag(data) ==
    IF Truthy(data) /\ Len(data[1]) > 0 /\ Truthy(Get(data[1][1], "name"))
    THEN Some(data[1][1].name)
    ELSE None

\* get_latest_commit_sha lines 221-225: the short sha of a branch response
StaticBranchSha(data) ==
    IF /\ Truthy(data)
       /\ "commit" \in DOMAIN data[1]
       /\ "sha" \in DOMAIN data[1].commit
    THEN Some(Take(data[1].commit.sha, ShaLen))
    ELSE None

\* check_dependency_version lines 315-333: the result of one dependency
StaticResult(dep, latest_version, notes, has_error, tracking) ==
    LET unset  == IsNone(latest_version) /\ ~has_error
        latest == IF unset THEN Some(Str_Unknown) ELSE latest_version
        err    == has_error \/ unset
        notes2 == IF unset /\ notes = << >>
                  THEN Note("Could not determine latest version.", << >>)
                  ELSE notes
    IN  [name    |-> dep.name,
         url     |-> dep.url,
         current |-> dep.current,
         latest  |-> IF IsNone(latest) THEN Str_Unknown ELSE latest[1],
         status  |-> determine_status(dep.current, latest, tracking, err, hasPackaging),
         notes   |-> notes2]

\* Mutant of StaticAppend: the result is inserted at the front of the list.
StaticAppend_AtFront(entry) ==
    /\ results' = <<entry>> \o results
    /\ idx' = idx + 1
    /\ pc' = "loop"
    /\ inflight' = None
    /\ cur' = FreshCur

\* Mutant of StaticAppend: the entry is appended and the loop goes on while
\* the request is still awaited.
StaticAppend_LeavesRequest(entry) ==
    /\ results' = Append(results, entry)
    /\ idx' = idx + 1
    /\ pc' = "loop"
    /\ inflight' = inflight
    /\ cur' = FreshCur

\* main line 352: all_results.append(result), and on to the next dependency
StaticAppend(entry) ==
    /\ results' = Append(results, entry)
    /\ idx' = idx + 1
    /\ pc' = "loop"
    /\ inflight' = None
    /\ cur' = FreshCur

\* main line 348 with check_dependency_version lines 270-301: one iteration
\* up to its first request, or to its result when the URL does not parse.
StaticStartDep ==
    /\ prog = "static" /\ pc = "loop" /\ idx <= Len(work)
    /\ LET dep == work[idx]
           loc == parse_github_url(dep.url)
       IN  /\ hist' = Append(hist, << >>)
           /\ IF IsNone(loc)
              THEN StaticAppend(
                      [name |-> dep.name, url |-> dep.url, current |-> dep.current,
                       latest |-> Str_Unknown, status |-> StErrorChecking,
                       notes |-> Note("Could not parse GitHub URL", << >>)])
              ELSE /\ pc' = "await"
                   /\ UNCHANGED <<results, idx>>
                   /\ IF is_tracking_branch(dep.current)
                      THEN /\ cur' = [FreshCur EXCEPT
                                        !.owner = loc[1], !.repo = loc[2],
                                        !.is_tracking = TRUE,
                                        !.notes = Note("Tracking branch.", dep.current),
                                        !.to_try = Tail(branches_to_try(dep.current))]
                           /\ inflight' = Some(Request("branch", loc[1], loc[2],
                                                       Head(branches_to_try(dep.current))))
                      ELSE /\ cur' = [FreshCur EXCEPT !.owner = loc[1], !.repo = loc[2]]
                           /\ inflight' = Some(Request("release", loc[1], loc[2], << >>))
    /\ UNCHANGED <<prog, hasPackaging, deps, work, report, prelude>>

\* The response to a branch request: get_latest_commit_sha lines 216-229 and
\* check_dependency_version lines 294-298.
StaticOnBranchResponse ==
    /\ prog = "static" /\ pc = "await" /\ ~IsNone(inflight)
    /\ inflight[1].kind = "branch"
    /\ \E data \in BranchResponses :
        LET dep == work[idx]
            sha == StaticBranchSha(data)
        IN  /\ hist' = [hist EXCEPT ![idx] = Append(@, <<inflight[1], data>>)]
            /\ IF ~IsNone(sha)
               THEN StaticAppend(StaticResult(dep, sha, cur.notes, FALSE, cur.is_tracking))
               ELSE IF cur.to_try # << >>
               THEN /\ inflight' = Some(Request("branch", cur.owner, cur.repo,
                                                Head(cur.to_try)))
                    /\ cur' = [cur EXCEPT !.to_try = Tail(@)]
                    /\ UNCHANGED <<results, idx, pc>>
               ELSE StaticAppend(StaticResult(dep, None,
                        cur.notes \o Note(" Could not fetch latest commit.", << >>),
                        TRUE, cur.is_tracking))
    /\ UNCHANGED <<prog, hasPackaging, deps, work, report, prelude>>

\* The response to the releases/latest request: lines 301-313.
StaticOnReleaseResponse ==
    /\ prog = "static" /\ pc = "await" /\ ~IsNone(inflight)
    /\ inflight[1].kind = "release"
    /\ \E data \in ReleaseResponses :
        LET dep == work[idx]
            latest_version == get_latest_release(data)
        IN  /\ hist' = [hist EXCEPT ![idx] = Append(@, <<inflight[1], data>>)]
            /\ IF IsNone(latest_version)
               THEN /\ inflight' = Some(Request("tags", cur.owner, cur.repo, << >>))
                    /\ UNCHANGED <<results, idx, pc, cur>>
               ELSE StaticAppend(StaticResult(dep, latest_version,
                        Note("Latest version from releases.", << >>), FALSE, cur.is_tracking))
    /\ UNCHANGED <<prog, hasPackaging, deps, work, report, prelude>>

\* The response to the tags request: lines 306-311.
StaticOnTagsResponse ==
    /\ prog = "static" /\ pc = "await" /\ ~IsNone(inflight)
    /\ inflight[1].kind = "tags"
    /\ \E data \in TagsResponses :
        LET dep == work[idx]
            latest_version == get_latest_tag(data)
        IN  /\ hist' = [hist EXCEPT ![idx] = Append(@, <<inflight[1], data>>)]
            /\ IF Truthy(latest_version)
               THEN StaticAppend(StaticResult(dep, latest_version,
                        Note("Latest version from tags (no formal release found).", << >>),
                        FALSE, cur.is_tracking))
               ELSE StaticAppend(StaticResult(dep, latest_version,
                        Note("Could not fetch latest release or tag.", << >>),
                        TRUE, cur.is_tracking))
    /\ UNCHANGED <<prog, hasPackaging, deps, work, report, prelude>>

----------------------------------------------------------------------------
(* check_versions2.py: the lockfile checker                                *)

\* `a or b` on Optional strings: a when it is truthy, else b
OrElse(a, b) == IF Truthy(a) THEN a ELSE b

\* parse_package_resolved lines 186-191: one pin to one dependency record
ParsePin(pin) ==
    LET version  == Get(pin.state, "version")
        branch   == Get(pin.state, "branch")
        revision == Get(pin.state, "revision")
        revOrUnknown == IF IsNone(revision) THEN Some(Str_unknown) ELSE revision
    IN  [name |-> pin.identity,
         url  |-> pin.location,
         resolved_version |-> OrElse(version, OrElse(branch, revOrUnknown))[1],
         is_branch_or_revision |-> Truthy(OrElse(branch, revision))]

\* parse_package_resolved lines 183-197: the pins in order
parse_package_resolved(pins) == [i \in 1..Len(pins) |-> ParsePin(pins[i])]

\* main line 334: the pin is looked up as a branch or a commit, not as a tag
LooksLikeBranchOrCommit(dep) ==
    /\ dep.is_branch_or_revision
    /\ ~StartsWith(dep.resolved_version, <<"v">>)
    /\ ~StartsWith(dep.resolved_version, <<"V">>)
    /\ ~MatchesDigitsDotDigits(dep.resolved_version)

\* main line 343: the heuristic for a branch name
LooksLikeBranchName(rv) ==
    /\ Len(rv) < BranchNameMaxLen
    /\ ~StartsWith(rv, <<"v">>)
    /\ rv[1] \notin Digits

\* get_latest_commit_sha lines 235-240
LockBranchSha(data) ==
    IF /\ Truthy(data)
       /\ "commit" \in DOMAIN data[1]
       /\ "sha" \in DOMAIN data[1].commit
    THEN Some(Take(data[1].commit.sha, ShaLen))
    ELSE None

\* Mutant of LockFinalStatus: line 364 moved into the `else` of line 333, so
\* that the status line 330 assigned survives.
LockFinalStatus_InsideElse(status_before, dep, latest, has_error) ==
    IF status_before = Some(StErrorParsingURL) /\ has_error /\ IsNone(latest)
    THEN StErrorParsingURL
    ELSE determine_status_for_resolved(dep.resolved_version, latest,
             dep.is_branch_or_revision, has_error, hasPackaging)

\* main line 364: `status` is assigned again for every dependency, whatever
\* line 330 or the previous iteration left in it (status_before).
LockFinalStatus(status_before, dep, latest, has_error) ==
    determine_status_for_resolved(dep.resolved_version, latest,
        dep.is_branch_or_revision, has_error, hasPackaging)

\* main lines 370-378: the entry of the current dependency
LockEntry(dep, status, latest, notes) ==
    [name |-> dep.name,
     source_url |-> dep.url,
     resolved_version |-> dep.resolved_version,
     is_branch_or_revision |-> dep.is_branch_or_revision,
     latest_available_version |-> IF Truthy(latest) THEN latest[1] ELSE Str_Unknown,
     status |-> status,
     notes |-> notes]

\* main lines 364-378: final_results.append(...); the locals keep their values
LockAppend(dep, loc, status_before, latest, notes, has_error) ==
    LET status == LockFinalStatus(status_before, dep, latest, has_error)
    IN  /\ results' = Append(results, LockEntry(dep, status, latest, notes))
        /\ cur' = [cur EXCEPT !.owner = loc[1], !.repo = loc[2],
                              !.latest = latest, !.notes = notes,
                              !.has_error = has_error, !.status = Some(status)]
        /\ idx' = idx + 1
        /\ pc' = "loop"
        /\ inflight' = None

\* Mutant of ResetLocals: has_error_fetching_latest is not reset.
ResetLocals_KeepsError(c) == [c EXCEPT !.latest = None, !.notes = << >>]

\* main lines 324-327: the locals every iteration assigns before it uses them
ResetLocals(c) == [c EXCEPT !.latest = None, !.notes = << >>, !.has_error = FALSE]

\* main lines 319-354: one iteration up to its first request, or to its entry
\* when no request is made (URL does not parse, or the pin is taken for a commit).
LockStartDep ==
    /\ prog = "lockfile" /\ pc = "loop" /\ idx <= Len(work)
    /\ LET dep == work[idx]
           rv  == dep.resolved_version
           loc == parse_github_url_to_owner_repo(dep.url)
           fresh == ResetLocals(cur)
       IN  /\ hist' = Append(hist, << >>)
           /\ IF IsNone(loc)
              THEN LockAppend(dep, <<None, None>>, Some(StErrorParsingURL), fresh.latest,
                       Note("Could not parse dependency GitHub URL.", << >>), TRUE)
              ELSE IF LooksLikeBranchOrCommit(dep)
              THEN IF LooksLikeBranchName(rv)
                   THEN /\ inflight' = Some(Request("branch", loc[1], loc[2], rv))
                        /\ cur' = [fresh EXCEPT !.owner = loc[1], !.repo = loc[2]]
                        /\ pc' = "await"
                        /\ UNCHANGED <<results, idx>>
                   ELSE LockAppend(dep, loc, cur.status, Some(rv),
                            Note("Pinned to specific commit.", << >>), fresh.has_error)
              ELSE /\ inflight' = Some(Request("release", loc[1], loc[2], << >>))
                   /\ cur' = [fresh EXCEPT !.owner = loc[1], !.repo = loc[2]]
                   /\ pc' = "await"
                   /\ UNCHANGED <<results, idx>>
    /\ UNCHANGED <<prog, hasPackaging, deps, work, report, prelude>>

\* The response to the branch request: lines 344-349.
LockOnBranchResponse ==
    /\ prog = "lockfile" /\ pc = "await" /\ ~IsNone(inflight)
    /\ inflight[1].kind = "branch"
    /\ \E data \in BranchResponses :
        LET dep == work[idx]
            latest_version_val == LockBranchSha(data)
        IN  /\ hist' = [hist EXCEPT ![idx] = Append(@, <<inflight[1], data>>)]
            /\ IF Truthy(latest_version_val)
               THEN LockAppend(dep, <<cur.owner, cur.repo>>, cur.status, latest_version_val,
                       Note("Latest commit on branch.", dep.resolved_version),
                       cur.has_error)
               ELSE LockAppend(dep, <<cur.owner, cur.repo>>, cur.status, latest_version_val,
                       Note("Could not fetch latest commit for branch.", dep.resolved_version),
                       TRUE)
    /\ UNCHANGED <<prog, hasPackaging, deps, work, report, prelude>>

\* main lines 355-362 after get_latest_github_version returned
\* (latest_version_val, version_type, err).
LockAfterVersionLookup(dep, latest_version_val, version_type, err) ==
    IF Truthy(latest_version_val)
    THEN LockAppend(dep, <<cur.owner, cur.repo>>, cur.status, latest_version_val,
             Note("Latest from GitHub.", version_type), err)
    ELSE IF ~err
    THEN LockAppend(dep, <<cur.owner, cur.repo>>, cur.status, latest_version_val,
             Note("No releases or tags found on GitHub.", << >>), TRUE)
    ELSE LockAppend(dep, <<cur.owner, cur.repo>>, cur.status, latest_version_val,
             Note("Error fetching latest version from GitHub.", << >>), err)

\* The response to the releases/latest request: get_latest_github_version
\* lines 213-220.
LockOnReleaseResponse ==
    /\ prog = "lockfile" /\ pc = "await" /\ ~IsNone(inflight)
    /\ inflight[1].kind = "release"
    /\ \E release_data \in ReleaseResponses :
        LET dep == work[idx]
        IN  /\ hist' = [hist EXCEPT ![idx] = Append(@, <<inflight[1], release_data>>)]
            /\ IF Truthy(release_data) /\ "tag_name" \in DOMAIN release_data[1]
               THEN LockAfterVersionLookup(dep, Some(release_data[1].tag_name),
                                           "release", FALSE)
               ELSE /\ inflight' = Some(Request("tags", cur.owner, cur.repo, << >>))
                    /\ UNCHANGED <<results, idx, pc, cur>>
    /\ UNCHANGED <<prog, hasPackaging, deps, work, report, prelude>>

\* The response to the tags request: get_latest_github_version lines 220-229.
LockOnTagsResponse ==
    /\ prog = "lockfile" /\ pc = "await" /\ ~IsNone(inflight)
    /\ inflight[1].kind = "tags"
    /\ \E tags_data \in TagsResponses :
        LET dep == work[idx]
            named == /\ Truthy(tags_data) /\ Len(tags_data[1]) > 0
                     /\ Truthy(Get(tags_data[1][1], "name"))
        IN  /\ hist' = [hist EXCEPT ![idx] = Append(@, <<inflight[1], tags_data>>)]
            /\ IF named
               THEN LockAfterVersionLookup(dep, Some(tags_data[1][1].name), "tag", FALSE)
               ELSE LockAfterVersionLookup(dep, None, "unknown", TRUE)
    /\ UNCHANGED <<prog, hasPackaging, deps, work, report, prelude>>

----------------------------------------------------------------------------
(* main(): before and after the loop                                       *)

\* check_versions2.py line 21
PRIMARY_PROJECT_REPO_URL ==
    HttpsPrefix \o <<"C", "o", "n", "g", "L", "3", "/", "A", "n", "n", "i", "v", "e",
                     "r", "s", "a", "r", "y", "T", "r", "a", "c", "k", "e", "r">>

\* What the text of the fetched file can be: "pins" is a Package.resolved of a
\* supported version whose pins are deps; "garbled" is text json.loads rejects
\* or a Package.resolved of an unsupported version; "empty" is the empty
\* string; "undecodable" is content that is not base64 / utf-8.
FileTexts == {"pins", "garbled", "empty", "undecodable"}

\* The answers to the contents request of get_file_content_from_github.
ContentsResponses ==
    {None, Some([message |-> "Not Found"]), Some([download_url |-> "raw"])}
        \cup {Some([encoding |-> "base64", content |-> t]) : t \in FileTexts}

\* The answers to the raw download request.
DownloadResponses == {None} \cup {Some(t) : t \in FileTexts}

\* get_file_content_from_github lines 137-149: the decoded text, if any
DecodedText(t) == IF t = "undecodable" THEN None ELSE Some(t)

\* parse_package_resolved lines 168-203 on the text of the file: the pins of a
\* readable file, the empty list for any other text.
ResolvedOf(text) == IF text = "pins" THEN parse_package_resolved(deps) ELSE << >>

\* main lines 298-315: what the run does with the result of
\* get_file_content_from_github, an Optional text.
AfterFetch(package_resolved_content) ==
    IF IsNone(package_resolved_content) \/ package_resolved_content[1] = "empty"
    THEN /\ pc' = "exit1"
         /\ UNCHANGED <<work, report>>
    ELSE /\ work' = ResolvedOf(package_resolved_content[1])
         /\ IF ResolvedOf(package_resolved_content[1]) = << >>
            THEN /\ report' = Some(<< >>)
                 /\ pc' = "exit0"
            ELSE /\ pc' = "loop"
                 /\ UNCHANGED report

\* The run's first step.  check_versions.py lines 344-346: the list is the
\* module's own table.  check_versions2.py lines 288-295 and 133-137: the
\* project URL is parsed and the contents request for the lockfile is issued.
Start ==
    /\ pc = "start"
    /\ IF prog = "static"
       THEN /\ work' = deps
            /\ pc' = "loop"
            /\ UNCHANGED inflight
       ELSE LET loc == parse_github_url_to_owner_repo(PRIMARY_PROJECT_REPO_URL)
            IN  IF IsNone(loc)
                THEN /\ pc' = "exit1"
                     /\ UNCHANGED <<work, inflight>>
                ELSE /\ pc' = "fetch"
                     /\ inflight' = Some(Request("contents", loc[1], loc[2], << >>))
                     /\ UNCHANGED work
    /\ UNCHANGED <<prog, hasPackaging, deps, idx, cur, results, hist, report, prelude>>

\* The response to the contents request: get_file_content_from_github lines
\* 137-160, and main lines 298-315 when the fetch is over.
OnContentsResponse ==
    /\ prog = "lockfile" /\ pc = "fetch" /\ ~IsNone(inflight)
    /\ inflight[1].kind = "contents"
    /\ \E data \in ContentsResponses :
        /\ prelude' = Append(prelude, <<inflight[1], data>>)
        /\ IF /\ Truthy(data) /\ "content" \in DOMAIN data[1]
              /\ Get(data[1], "encoding") = Some("base64")
           THEN /\ AfterFetch(DecodedText(data[1].content))
                /\ inflight' = None
           ELSE IF Truthy(data) /\ "download_url" \in DOMAIN data[1]
           THEN /\ inflight' = Some(Request("download", inflight[1].owner,
                                            inflight[1].repo, << >>))
                /\ UNCHANGED <<work, pc, report>>
           ELSE /\ AfterFetch(None)
                /\ inflight' = None
    /\ UNCHANGED <<prog, hasPackaging, deps, idx, cur, results, hist>>

\* The response to the raw download request: get_file_content_from_github
\* lines 149-155, and main lines 298-315.
OnDownloadResponse ==
    /\ prog = "lockfile" /\ pc = "fetch" /\ ~IsNone(inflight)
    /\ inflight[1].kind = "download"
    /\ \E raw_content_bytes \in DownloadResponses :
        /\ prelude' = Append(prelude, <<inflight[1], raw_content_bytes>>)
        /\ inflight' = None
        /\ IF IsNone(raw_content_bytes) \/ raw_content_bytes[1] = "empty"
           THEN AfterFetch(None)
           ELSE AfterFetch(DecodedText(raw_content_bytes[1]))
    /\ UNCHANGED <<prog, hasPackaging, deps, idx, cur, results, hist>>

\* Mutant of CountStatus: an entry is counted when its status text equals the
\* group's plain text, not when it carries the group's symbol.
CountStatus_ByText(sym) ==
    LET text == CASE sym = "check" -> "Up to Date"
                  [] sym = "warn"  -> "Update Available"
                  [] sym = "info"  -> "Tracks Branch"
                  [] sym = "alarm" -> "Error Checking"
    IN  Cardinality({i \in 1..Len(results) : results[i].status.text = text})

\* `len([r for r in results if "<symbol>" in r['status']])`
CountStatus(sym) ==
    Cardinality({i \in 1..Len(results) : results[i].status.sym = sym})

\* The summary: check_versions.py lines 379-383, check_versions2.py 401-405
total == Len(results)

up_to_date == CountStatus("check")

updates_available == CountStatus("warn")

tracking_branch == CountStatus("info")

errors == CountStatus("alarm")

\* Mutant of WriteReport: the report is written from where the loop stands,
\* before every dependency has its entry.
WriteReport_Early ==
    /\ pc = "loop" /\ report = None
    /\ \E written \in BOOLEAN :
          IF written
          THEN report' = Some(results) /\ pc' = IF idx > Len(work) THEN "done" ELSE pc
          ELSE pc' = "exit1" /\ UNCHANGED report
    /\ UNCHANGED <<prog, hasPackaging, deps, work, idx, inflight, cur, results, hist,
                   prelude>>

\* After the loop: check_versions.py lines 359-376, check_versions2.py lines
\* 381-398.  The report is written, or the write raises IOError and the run
\* exits 1.
WriteReport ==
    /\ pc = "loop" /\ idx > Len(work)
    /\ \E written \in BOOLEAN :
          IF written
          THEN report' = Some(results) /\ pc' = "done"
          ELSE pc' = "exit1" /\ UNCHANGED report
    /\ UNCHANGED <<prog, hasPackaging, deps, work, idx, inflight, cur, results, hist,
                   prelude>>

Init ==
    /\ prog \in {"static", "lockfile"}
    /\ hasPackaging \in BOOLEAN
    /\ deps \in SeqsOf(IF prog = "static" THEN StaticPool ELSE LockPool, 0, MaxDeps)
    /\ work = << >>
    /\ pc = "start"
    /\ idx = 1
    /\ inflight = None
    /\ cur = FreshCur
    /\ results = << >>
    /\ hist = << >>
    /\ report = None
    /\ prelude = << >>

Next ==
    \/ Start
    \/ OnContentsResponse
    \/ OnDownloadResponse
    \/ StaticStartDep
    \/ StaticOnBranchResponse
    \/ StaticOnReleaseResponse
    \/ StaticOnTagsResponse
    \/ LockStartDep
    \/ LockOnBranchResponse
    \/ LockOnReleaseResponse
    \/ LockOnTagsResponse
    \/ WriteReport

Spec == Init /\ [][Next]_vars

----------------------------------------------------------------------------
(* Vocabulary of the properties                                            *)

\* The name, source URL and pin state of input i.
InputName(i) == IF prog = "static" THEN deps[i].name ELSE deps[i].identity

InputUrl(i) == IF prog = "static" THEN deps[i].url ELSE deps[i].location

\* The declared pin, the reported latest value and the requests of entry i.
EntryPin(i) ==
    IF prog = "static" THEN results[i].current ELSE results[i].resolved_version

EntryLatest(i) ==
    IF prog = "static" THEN results[i].latest
    ELSE results[i].latest_available_version

RequestKinds(i) == [k \in 1..Len(hist[i]) |-> hist[i][k][1].kind]

Responses(i) == [k \in 1..Len(hist[i]) |-> hist[i][k][2]]

\* The source URL of input i is one the script's locator rejects.
UrlUnparsable(i) ==
    IF prog = "static" THEN IsNone(parse_github_url(InputUrl(i)))
    ELSE IsNone(parse_github_url_to_owner_repo(InputUrl(i)))

\* A response that carries what its request asked for: a release's tag name,
\* a first tag's name, a branch head's sha.
HasValue(kind, data) ==
    /\ data # None
    /\ CASE kind = "release" -> "tag_name" \in DOMAIN data[1]
         [] kind = "tags"    -> Len(data[1]) >= 1 /\ "name" \in DOMAIN data[1][1]
         [] kind = "branch"  -> "commit" \in DOMAIN data[1]

ValueOf(kind, data) ==
    CASE kind = "release" -> data[1].tag_name
      [] kind = "tags"    -> data[1][1].name
      [] kind = "branch"  -> data[1].commit.sha

\* Entry i made requests and the last of them brought no value.
LookupFailed(i) ==
    /\ hist[i] # << >>
    /\ ~HasValue(hist[i][Len(hist[i])][1].kind, hist[i][Len(hist[i])][2])

\* The main loop has ended.
LoopEnded == pc \in {"loop", "done"} /\ idx > Len(work)

----------------------------------------------------------------------------
(* C1: In both checkers' main loops the result list is append-only and in  *)
(* input order: after k dependencies have been processed it holds exactly  *)
(* k entries and entry i carries the name of input i; when the loop ends   *)
(* the entry count equals the input count, also when URL parsing or every  *)
(* lookup fails; a step never changes or removes an entry already there.   *)
C1_ResultsAppendOnlyInInputOrder ==
    /\ [](/\ Len(results) = idx - 1
          /\ Len(results) <= Len(deps)
          /\ \A i \in 1..Len(results) : results[i].name = InputName(i)
          /\ (pc # "start" /\ LoopEnded) => Len(results) = Len(deps))
    /\ [][/\ Len(results') >= Len(results)
          /\ \A i \in 1..Len(results) : results'[i] = results[i]]_vars

\* C1 witness: a finished run of two dependencies, one whose URL did not
\* parse and one whose every request failed, both in the list in input order.
C1_Witness ==
    /\ pc = "done" /\ Len(results) = 2 /\ Len(deps) = 2
    /\ results[1].name = InputName(1) /\ results[2].name = InputName(2)
    /\ InputName(1) # InputName(2)
    /\ UrlUnparsable(1)
    /\ Len(hist[2]) >= 2 /\ \A k \in 1..Len(hist[2]) : hist[2][k][2] = None

----------------------------------------------------------------------------
(* C2: Whatever the pin kind, a dependency whose source URL cannot be      *)
(* parsed, or whose lookup ended without a latest value, has the final     *)
(* status Error Checking; the lockfile checker's intermediate status       *)
(* Error Parsing URL is in no entry.                                       *)
C2_FailureIsErrorChecking ==
    \A i \in 1..Len(results) :
        /\ (UrlUnparsable(i) \/ LookupFailed(i)) => results[i].status = StErrorChecking
        /\ results[i].status # StErrorParsingURL

\* C2 witness: the lockfile checker has an entry for an unparsable URL and an
\* entry for a lookup that failed.
C2_Witness ==
    /\ prog = "lockfile"
    /\ \E i, j \in 1..Len(results) :
          /\ UrlUnparsable(i) /\ results[i].status = StErrorChecking
          /\ ~UrlUnparsable(j) /\ LookupFailed(j)
          /\ results[j].status = StErrorChecking

----------------------------------------------------------------------------
(* C3: The version lookup order is fixed.  A version-kind pin's first      *)
(* request is the latest-release request; a tags request is issued only    *)
(* right after a release request of the same dependency that returned no   *)
(* tag name; a release that yields a tag name ends the lookup, and its tag *)
(* name is the reported latest; otherwise the reported latest is the name  *)
(* of the first tag of the list, whatever the release lookup returned.     *)

\* The requests made so far for dependency i, the one in flight included.
IssuedKinds(i) ==
    RequestKinds(i) \o
        (IF ~IsNone(inflight) /\ inflight[1].dep = i THEN <<inflight[1].kind>> ELSE << >>)

\* Input i is a version pin: a bare string that is no branch-like name, or a
\* pin state with a version field.
IsVersionPin(i) ==
    IF prog = "static" THEN Lower(deps[i].current) \notin BranchLikeNames
    ELSE "version" \in DOMAIN deps[i].state

C3_ReleaseBeforeTags ==
    \A i \in 1..Len(hist) :
        /\ (IsVersionPin(i) /\ IssuedKinds(i) # << >>) => IssuedKinds(i)[1] = "release"
        /\ (IsVersionPin(i) /\ ~UrlUnparsable(i)) => IssuedKinds(i) # << >>
        /\ \A k \in 1..Len(IssuedKinds(i)) :
              IssuedKinds(i)[k] = "tags" =>
                  /\ k > 1
                  /\ hist[i][k - 1][1].kind = "release"
                  /\ hist[i][k - 1][1].dep = i
                  /\ ~HasValue("release", hist[i][k - 1][2])
        /\ \A k \in 1..Len(hist[i]) :
              (hist[i][k][1].kind = "release" /\ HasValue("release", hist[i][k][2])) =>
                  /\ k = Len(IssuedKinds(i))
                  /\ i <= Len(results)
                  /\ EntryLatest(i) = hist[i][k][2][1].tag_name
        /\ \A k \in 1..Len(hist[i]) :
              (hist[i][k][1].kind = "tags" /\ HasValue("tags", hist[i][k][2])) =>
                  /\ i <= Len(results)
                  /\ EntryLatest(i) = hist[i][k][2][1][1].name

\* C3 witness: both orders happened in one run: a release that gave the
\* latest with no tags request, and a failed release followed by tags.
C3_Witness ==
    \E i, j \in 1..Len(results) :
        /\ IsVersionPin(i) /\ RequestKinds(i) = <<"release">>
        /\ HasValue("release", hist[i][1][2])
        /\ EntryLatest(i) = hist[i][1][2][1].tag_name
        /\ IsVersionPin(j) /\ RequestKinds(j) = <<"release", "tags">>
        /\ HasValue("tags", hist[j][2][2])
        /\ Len(hist[j][2][2][1]) = 2
        /\ EntryLatest(j) = hist[j][2][2][1][1].name

----------------------------------------------------------------------------
(* Pin kinds, as the properties name them                                  *)

\* Static list: Branch when the bare pin equals a branch-like name ignoring
\* case, else Version.  Lockfile: by the first field the pin state has, in
\* the order version, branch, revision; Unknown when it has none.
PinKind(i) ==
    IF prog = "static"
    THEN IF \E b \in BranchLikeNames : Lower(deps[i].current) = Lower(b)
         THEN "Branch" ELSE "Version"
    ELSE IF "version" \in DOMAIN deps[i].state THEN "Version"
    ELSE IF "branch" \in DOMAIN deps[i].state THEN "Branch"
    ELSE IF "revision" \in DOMAIN deps[i].state THEN "Revision"
    ELSE "Unknown"

\* The remote gave entry i a latest value: its last request brought one.
LatestObtained(i) ==
    /\ hist[i] # << >>
    /\ HasValue(hist[i][Len(hist[i])][1].kind, hist[i][Len(hist[i])][2])

IsPrefix(a, b) == Len(a) <= Len(b) /\ SubSeq(b, 1, Len(a)) = a

\* One leading "v" or "V" removed.
StripOneV(x) == IF Len(x) > 0 /\ x[1] \in {"v", "V"} THEN Tail(x) ELSE x

\* The declared version against the latest under numeric ordering of dotted
\* versions: "Equal", "DeclaredNewer", "DeclaredOlder" or "Incomparable".
VersionOrder(declared, latest) ==
    LET d  == StripOneV(declared)
        l  == StripOneV(latest)
        pd == parse_version(d)
        pl == parse_version(l)
    IN  IF d = l THEN "Equal"
        ELSE IF IsNone(pd) \/ IsNone(pl) THEN "Incomparable"
        ELSE IF VersionGE(pd[1], pl[1]) /\ VersionGE(pl[1], pd[1]) THEN "Equal"
        ELSE IF VersionGE(pd[1], pl[1]) THEN "DeclaredNewer"
        ELSE "DeclaredOlder"

----------------------------------------------------------------------------
(* C4: For a Version- or Unknown-kind pin whose latest value was obtained, *)
(* the status is Up to Date when the declared version is equal to or newer *)
(* than the latest under numeric version ordering (1.10.0 is newer than    *)
(* 1.2.0), and Update Available when it is older or the two are unequal    *)
(* and cannot be ordered.                                                  *)
C4_StatusFollowsVersionOrder ==
    \A i \in 1..Len(results) :
        (PinKind(i) \in {"Version", "Unknown"} /\ LatestObtained(i)) =>
            results[i].status =
                IF VersionOrder(EntryPin(i), EntryLatest(i)) \in {"Equal", "DeclaredNewer"}
                THEN StUpToDate
                ELSE StUpdateAvailable

----------------------------------------------------------------------------
(* C5: In the lockfile checker a pin whose state has a version field is a  *)
(* Version pin, with or without branch or revision fields: it is looked up *)
(* through release/tag and its status is Up to Date, Update Available or   *)
(* Error Checking.  A pin with no version but a branch is looked up as a   *)
(* branch, and a pin with only a revision gets a revision status.          *)
C5_ClassifiedByStateFields ==
    prog = "lockfile" =>
        \A i \in 1..Len(results) :
            /\ PinKind(i) = "Version" =>
                  /\ \A k \in 1..Len(hist[i]) : RequestKinds(i)[k] \in {"release", "tags"}
                  /\ results[i].status \in {StUpToDate, StUpdateAvailable, StErrorChecking}
            /\ (PinKind(i) = "Branch" /\ ~UrlUnparsable(i)) =>
                  /\ hist[i] # << >>
                  /\ \A k \in 1..Len(hist[i]) : RequestKinds(i)[k] = "branch"
            /\ PinKind(i) = "Revision" =>
                  results[i].status \in {StUpToDateRev, StTracksBranchRev, StErrorChecking}

----------------------------------------------------------------------------
(* C6: For every Branch-kind pin and every branch name the lookup made is  *)
(* the branch-head lookup for that branch, and whenever it returns a sha   *)
(* the status is Tracks Branch and the note names the branch.              *)
C6_BranchPinTracksBranch ==
    \A i \in 1..Len(results) :
        (PinKind(i) = "Branch" /\ ~UrlUnparsable(i)) =>
            /\ hist[i] # << >>
            /\ \A k \in 1..Len(hist[i]) : RequestKinds(i)[k] = "branch"
            /\ hist[i][1][1].branch = EntryPin(i)
            /\ LatestObtained(i) =>
                  /\ results[i].status \in {StTracksBranch, StTracksBranchRev}
                  /\ \E n \in 1..Len(results[i].notes) :
                        results[i].notes[n].arg = EntryPin(i)

----------------------------------------------------------------------------
(* C7: For a Revision-kind pin for which a latest sha was obtained, the    *)
(* status is Up to Date (Branch/Revision) when the declared revision is a  *)
(* prefix of the latest sha or the latest sha is a prefix of the declared  *)
(* revision, and Tracks Branch/Revision when neither is a prefix of the    *)
(* other.                                                                  *)

\* Entry i is a revision pin of the lockfile with a reported latest value.
RevisionWithLatest(i) ==
    /\ prog = "lockfile"
    /\ PinKind(i) = "Revision"
    /\ results[i].status # StErrorChecking
    /\ EntryLatest(i) # Str_Unknown

PrefixRelated(a, b) == IsPrefix(a, b) \/ IsPrefix(b, a)

\* C7 as claimed.
C7_Original ==
    \A i \in 1..Len(results) :
        RevisionWithLatest(i) =>
            results[i].status =
                IF PrefixRelated(EntryPin(i), EntryLatest(i))
                THEN StUpToDateRev
                ELSE StTracksBranchRev

\* C7 amended: the status is Up to Date (Branch/Revision) when the declared
\* revision and the latest value are both at least seven characters long and
\* one is a prefix of the other, and Tracks Branch/Revision in every other
\* case, a shorter declared revision that is a prefix of the latest included.
C7_RevisionStatus ==
    \A i \in 1..Len(results) :
        RevisionWithLatest(i) =>
            results[i].status =
                IF /\ Len(EntryPin(i)) >= ShaLen
                   /\ Len(EntryLatest(i)) >= ShaLen
                   /\ PrefixRelated(EntryPin(i), EntryLatest(i))
                THEN StUpToDateRev
                ELSE StTracksBranchRev

\* C7 witness: one run holds a revision that the remote's sha matches and a
\* short revision that is a prefix of the remote's sha.
C7_Witness ==
    \E i, k \in 1..Len(results) :
        /\ RevisionWithLatest(i) /\ LatestObtained(i)
        /\ results[i].status = StUpToDateRev
        /\ RevisionWithLatest(k) /\ LatestObtained(k)
        /\ results[k].status = StTracksBranchRev
        /\ IsPrefix(EntryPin(k), EntryLatest(k))

----------------------------------------------------------------------------
(* C8: In the static-list checker a bare pin is a Branch pin exactly when  *)
(* it equals, ignoring case, one of the branch-like names, and a Version   *)
(* pin otherwise; a Branch pin makes only branch-head requests and a       *)
(* Version pin only release and tags requests.                             *)
C8_BarePinClassification ==
    prog = "static" =>
        \A i \in 1..Len(hist) :
            ~UrlUnparsable(i) =>
                /\ IssuedKinds(i) # << >>
                /\ \A k \in 1..Len(IssuedKinds(i)) :
                      IF PinKind(i) = "Branch"
                      THEN IssuedKinds(i)[k] = "branch"
                      ELSE IssuedKinds(i)[k] \in {"release", "tags"}
                /\ i <= Len(results) =>
                      (results[i].status = StTracksBranch) =
                          (PinKind(i) = "Branch" /\ LatestObtained(i))

\* C8 witness: "Main" was looked up as a branch and "development", which is
\* no branch-like name, as a version.
C8_Witness ==
    /\ prog = "static" /\ Len(results) = 2
    /\ EntryPin(1) = Str_Main /\ results[1].status = StTracksBranch
    /\ RequestKinds(1) = <<"branch">>
    /\ EntryPin(2) = Str_development /\ RequestKinds(2) = <<"release", "tags">>
    /\ results[2].status = StUpdateAvailable

----------------------------------------------------------------------------
(* C9: Version comparison is reflexive and equality short-circuits: a      *)
(* version pin x whose obtained latest value is x, "v"+x or "V"+x (or with *)
(* the prefix on the declared side) has status Up to Date, whether or not  *)
(* x parses as a version and whether or not the parsing library is there.  *)
C9_EqualAfterPrefixIsUpToDate ==
    \A i \in 1..Len(results) :
        (/\ IsVersionPin(i)
         /\ LatestObtained(i)
         /\ \/ EntryLatest(i) \in {EntryPin(i), <<"v">> \o EntryPin(i), <<"V">> \o EntryPin(i)}
            \/ EntryPin(i) \in {<<"v">> \o EntryLatest(i), <<"V">> \o EntryLatest(i)})
        => results[i].status = StUpToDate

----------------------------------------------------------------------------
(* C10: Errors are contained to one dependency.  The run ends without a    *)
(* report only before the loop's first dependency or after its last, never *)
(* because a dependency failed; a step of one dependency changes no other  *)
(* dependency's entry or requests; two entries of one run with the same    *)
(* pin and the same responses have the same status, latest value and       *)
(* notes; and an entry whose own lookup brought a value is not Error       *)
(* Checking, whatever happened to the dependencies before it.              *)
SameInput(i, j) ==
    IF prog = "static"
    THEN deps[i].url = deps[j].url /\ deps[i].current = deps[j].current
    ELSE deps[i].location = deps[j].location /\ deps[i].state = deps[j].state

C10_ErrorsContained ==
    /\ [](/\ pc \in {"exit0", "exit1"} => (hist = << >> \/ Len(results) = Len(deps))
          /\ pc = "await" => (~IsNone(inflight) /\ inflight[1].dep = idx /\ idx <= Len(work))
          /\ \A i, j \in 1..Len(results) :
                (SameInput(i, j) /\ Responses(i) = Responses(j)) =>
                    /\ results[i].status = results[j].status
                    /\ EntryLatest(i) = EntryLatest(j)
                    /\ results[i].notes = results[j].notes
          /\ \A i \in 1..Len(results) :
                (~UrlUnparsable(i) /\ (hist[i] = << >> \/ LatestObtained(i))) =>
                    results[i].status # StErrorChecking)
    /\ [][\A i \in 1..Len(hist) :
              /\ i # idx => hist'[i] = hist[i]
              /\ i <= Len(results) => results'[i] = results[i]]_vars

\* C10 witness: a finished run of the same pin twice, where every request of
\* the first failed and the second got its value and a status of its own.
C10_Witness ==
    /\ pc = "done" /\ Len(results) = 2
    /\ SameInput(1, 2)
    /\ hist[1] # << >> /\ \A k \in 1..Len(hist[1]) : hist[1][k][2] = None
    /\ results[1].status = StErrorChecking
    /\ LatestObtained(2)
    /\ results[2].status # StErrorChecking

----------------------------------------------------------------------------
(* C11: When the remote has neither a release nor any tag for a version    *)
(* pin (the release request brought no tag name and the tags request       *)
(* answered with an empty list), the entry has status Error Checking and   *)
(* its notes differ from the notes of an entry of the same run whose       *)
(* release and tags requests both failed.                                  *)

\* Entry i asked for the release and the tags and the remote has none: the
\* tags request was answered, with the empty list.
NoReleaseNoTag(i) ==
    /\ RequestKinds(i) = <<"release", "tags">>
    /\ ~HasValue("release", hist[i][1][2])
    /\ hist[i][2][2] = Some(<< >>)

\* Both requests of entry i failed: neither was answered.
BothRequestsFailed(i) ==
    /\ RequestKinds(i) = <<"release", "tags">>
    /\ hist[i][1][2] = None
    /\ hist[i][2][2] = None

C11_NoReleaseNoTagIsTold ==
    \A i \in 1..Len(results) :
        (IsVersionPin(i) /\ NoReleaseNoTag(i)) =>
            /\ results[i].status = StErrorChecking
            /\ \A j \in 1..Len(results) :
                  (IsVersionPin(j) /\ BothRequestsFailed(j)) =>
                      results[i].notes # results[j].notes

----------------------------------------------------------------------------
(* C12: Status resolution is a function of the pin kind, the declared pin  *)
(* and the lookup outcome alone: two entries of a run with the same three  *)
(* have the same status, and the status of an entry is the one the same    *)
(* three get in a run where the version-parsing library is importable when *)
(* here it is not, and the other way round.                                *)

\* The lookup outcome of entry i: no value (the URL did not parse or the
\* lookup failed), or the latest value the entry reports.
Outcome(i) ==
    IF UrlUnparsable(i) \/ LookupFailed(i) THEN None ELSE Some(EntryLatest(i))

\* The status the script's resolver gives entry i's pin and outcome when the
\* import of packaging.version succeeds (pkg) or raises ImportError (~pkg).
StatusUnder(i, pkg) ==
    IF prog = "static"
    THEN determine_status(EntryPin(i), Outcome(i), is_tracking_branch(EntryPin(i)),
                          IsNone(Outcome(i)), pkg)
    ELSE determine_status_for_resolved(EntryPin(i), Outcome(i),
                          results[i].is_branch_or_revision, IsNone(Outcome(i)), pkg)

C12_StatusIsFunctionOfTriple ==
    /\ \A i, j \in 1..Len(results) :
          (/\ PinKind(i) = PinKind(j)
           /\ EntryPin(i) = EntryPin(j)
           /\ Outcome(i) = Outcome(j)) => results[i].status = results[j].status
    /\ \A i \in 1..Len(results) :
          /\ results[i].status = StatusUnder(i, hasPackaging)
          /\ results[i].status = StatusUnder(i, ~hasPackaging)

----------------------------------------------------------------------------
(* C13: The source locator returns a coordinate exactly for the URLs that, *)
(* once a trailing ".git" and a trailing slash are removed, have the form  *)
(* scheme://github.com/owner/repo with scheme https or git; every other    *)
(* URL, an http one included, is a parse failure and gets no request; and  *)
(* the two checkers' locators return the same result for the same URL.     *)

\* The URL without one trailing slash and one trailing ".git".
Trimmed(url) ==
    LET u == IF EndsWith(url, <<"/">>) THEN SubSeq(url, 1, Len(url) - 1) ELSE url
    IN  RemoveSuffix(u, DotGit)

\* scheme://github.com/owner/repo with scheme https or git
HasAcceptedForm(url) ==
    \E prefix \in {HttpsPrefix, GitPrefix} :
        /\ StartsWith(Trimmed(url), prefix)
        /\ ~IsNone(SplitOwnerRepo(Drop(Trimmed(url), Len(prefix))))

C13_LocatorAcceptsOnlyHttpsOrGit ==
    \A i \in 1..Len(hist) :
        /\ ~UrlUnparsable(i) <=> HasAcceptedForm(InputUrl(i))
        /\ hist[i] # << >> => HasAcceptedForm(InputUrl(i))
        /\ parse_github_url(InputUrl(i)) = parse_github_url_to_owner_repo(InputUrl(i))

----------------------------------------------------------------------------
(* C14: In the lockfile checker, when the dependency list cannot be        *)
(* obtained (the lockfile fetch fails, or the fetched text cannot be       *)
(* turned into a pin list), the run ends with exit status 1 and writes no  *)
(* report.                                                                 *)

\* The text get_file_content_from_github returned, from the last answer of
\* the prelude: None when the fetch failed.
FetchedText ==
    IF prelude = << >> THEN None
    ELSE LET last == prelude[Len(prelude)]
             kind == last[1].kind
             data == last[2]
         IN  IF /\ kind = "contents" /\ data # None /\ "content" \in DOMAIN data[1]
             THEN DecodedText(data[1].content)
             ELSE IF kind = "download" /\ data # None /\ data[1] # "empty"
             THEN DecodedText(data[1])
             ELSE None

\* The prelude of the lockfile checker is over and gave no dependency list.
ListNotObtained ==
    /\ prog = "lockfile"
    /\ pc \notin {"start", "fetch"}
    /\ \/ IsNone(FetchedText)
       \/ FetchedText[1] \in {"garbled", "empty"}

C14_NoListIsWholeRunFailure ==
    ListNotObtained => (pc = "exit1" /\ report = None)

----------------------------------------------------------------------------
(* C15: Version normalization removes exactly one leading "v" or "V" from  *)
(* each operand and nothing else: for every entry whose pin and latest     *)
(* value were compared as versions, the normalized operands are the pin    *)
(* and the latest without one leading v, and without the parsing library,  *)
(* where only equality gives Up to Date, the status is Up to Date exactly  *)
(* when those two are equal, so that "vv1.10.0" against "v1.10.0" is not.  *)

\* Entry i's status came from the comparison of its pin with its latest value.
Compared(i) == results[i].status \in {StUpToDate, StUpdateAvailable}

C15_OneLeadingVRemoved ==
    \A i \in 1..Len(results) :
        Compared(i) =>
            /\ LStrip(EntryPin(i), VChars) = StripOneV(EntryPin(i))
            /\ LStrip(EntryLatest(i), VChars) = StripOneV(EntryLatest(i))
            /\ ~hasPackaging =>
                  ((results[i].status = StUpToDate)
                      <=> (StripOneV(EntryPin(i)) = StripOneV(EntryLatest(i))))

----------------------------------------------------------------------------
(* C16: A branch-head lookup issues at most two requests: the first for    *)
(* the declared branch, and a second only when the first brought no sha    *)
(* and the declared name is master or main ignoring case, then for the     *)
(* other of the two names (the static checker always makes that retry);    *)
(* for any other name exactly one request is issued; and within the        *)
(* lookup of one dependency, and within the lockfile fetch, no request is  *)
(* issued twice.                                                           *)

\* The pin the loop holds for dependency i.
DeclaredPin(i) ==
    IF prog = "static" THEN work[i].current ELSE work[i].resolved_version

\* The requests issued so far for dependency i, the one in flight included.
IssuedRequests(i) ==
    [k \in 1..Len(hist[i]) |-> hist[i][k][1]] \o
        (IF pc = "await" /\ ~IsNone(inflight) /\ inflight[1].dep = i
         THEN <<inflight[1]>> ELSE << >>)

\* The requests of the lockfile fetch, the one in flight included.
PreludeRequests ==
    [k \in 1..Len(prelude) |-> prelude[k][1]] \o
        (IF pc = "fetch" /\ ~IsNone(inflight) THEN <<inflight[1]>> ELSE << >>)

NoRepeat(reqs) == \A a, b \in 1..Len(reqs) : reqs[a] = reqs[b] => a = b

OtherDefaultBranch(name) == IF Lower(name) = Str_master THEN Str_main ELSE Str_master

----------------------------------------------------------------------------
(* C17: Dependencies are processed strictly one at a time.  A request is   *)
(* in flight only while the run awaits it, and it belongs to the one       *)
(* dependency that has no entry yet; every request in a dependency's       *)
(* history is its own; and when the first step of a dependency is taken no *)
(* request is in flight and every earlier dependency has its entry, whose  *)
(* history never grows afterwards.                                         *)
C17_OneDependencyAtATime ==
    /\ [](/\ pc \in {"await", "fetch"} <=> ~IsNone(inflight)
          /\ pc = "await" =>
                /\ inflight[1].dep = Len(results) + 1
                /\ Len(hist) = Len(results) + 1
          /\ pc # "await" => Len(hist) = Len(results)
          /\ \A i \in 1..Len(hist) : \A k \in 1..Len(hist[i]) : hist[i][k][1].dep = i)
    /\ [][/\ Len(hist') > Len(hist) =>
                /\ IsNone(inflight)
                /\ Len(hist') = Len(hist) + 1
                /\ Len(results) = Len(hist)
          /\ \A i \in 1..Len(hist) : i <= Len(results) => hist'[i] = hist[i]]_vars

\* C17 witness: the second dependency's request is in flight after the first
\* made two requests and got its entry.
C17_Witness ==
    /\ pc = "await" /\ ~IsNone(inflight) /\ inflight[1].dep = 2
    /\ Len(results) = 1 /\ Len(hist[1]) = 2
    /\ hist[2] = << >>

----------------------------------------------------------------------------
----------------------------------------------------------------------------
(* C19: The summary counts are a partition of the entries: every status of *)
(* a completed run carries exactly one of the four counted symbols, so the *)
(* four counts sum to the total, which is the number of input              *)
(* dependencies.                                                           *)
C19_SummaryCountsPartition ==
    pc = "done" =>
        /\ \A i \in 1..Len(results) :
              results[i].status.sym \in {"check", "warn", "info", "alarm"}
        /\ up_to_date + updates_available + tracking_branch + errors = total
        /\ total = Len(deps)

\* C19 witness: a completed lockfile run whose two entries are Up to Date
\* (Branch/Revision) and Error Checking, counted once each.
C19_Witness ==
    /\ pc = "done" /\ prog = "lockfile" /\ total = 2
    /\ \E i \in 1..2 : results[i].status = StUpToDateRev
    /\ up_to_date = 1 /\ errors = 1

====
